---- MODULE Spec2Model ----
(***************************************************************************)
(* Model of the TradeTracer executor: the pending transaction store        *)
(* (executor/transactions.py), the tick cycle (executor/main.py), the      *)
(* broker adapters (adapters/) and the control surface (web/app.py).       *)
(***************************************************************************)
EXTENDS Integers, Sequences, FiniteSets, TLC

\* ---------------------------------------------------------------- bounds
MaxTx == 3        \* transactions (fills) ever created in one run of the model
MaxBatch == 2     \* orders in one response / transactions in one add() call
MaxInit == 1      \* transactions already pending when the executor is built
MaxTicks == 2     \* ticks in one run of the model
MaxShares == 2    \* shares in an order or a fill
MaxPrice == 2     \* prices, in the smallest unit, of an order or a fill
MaxCommission == 1
MaxCalls == 4      \* calls made on one adapter
MaxRequests == 3   \* requests the control surface answers
MaxLines == 2      \* log lines a response carries for one symbol
MaxArrived == 202  \* log lines received in all
MaxMinor == 3      \* log lines received for the symbol that has fewer
MaxClearAt == 2    \* lines received by the time a buffer is cleared from outside
MaxTickLines == 1  \* log lines received in the ticks that track quotes

\* ------------------------------------------------------ the program's numbers
LogCap == 200      \* the length a log buffer is cut to  \* commission of a fill

\* ------------------------------------------------- the backing file's bytes
\* The file holds what json.dumps(list) wrote: an opening bracket, the
\* transactions, a closing bracket.  Other content gets there by a cut-off
\* write or from outside the program.
LBRACK == 0 - 1   \* "["
RBRACK == 0 - 2   \* "]"
JUNK == 0 - 3     \* text that is no JSON ("not valid json")
BADBYTE == 0 - 4  \* a byte that is no UTF-8 (0xFF)

TxIds == 1..MaxTx

Symbols == {"AAPL", "MSFT"}

LoopThreads == {"loop", "loop2", "loop3"}

Threads == LoopThreads \cup {"manual"}

Elems(s) == {s[i] : i \in 1..Len(s)}

Prefixes(s) == {SubSeq(s, 1, n) : n \in 0..Len(s)}

\* json.dumps(current, indent=2)
Dumps(list) == <<LBRACK>> \o list \o <<RBRACK>>

\* Path.read_text(): decoding the bytes as UTF-8
Decodable(bytes) == \A i \in 1..Len(bytes) : bytes[i] # BADBYTE

\* json.loads(text) succeeds on a complete array only
WellFormed(text) ==
    /\ Len(text) >= 2
    /\ text[1] = LBRACK
    /\ text[Len(text)] = RBRACK
    /\ \A i \in 2..(Len(text) - 1) : text[i] \in TxIds

Loads(text) == SubSeq(text, 2, Len(text) - 1)

\* TransactionStore.get_pending: FileNotFoundError and JSONDecodeError are
\* caught, any other exception of read_text() leaves the method.
GetPending(f) ==
    IF ~f.exists THEN [exc |-> "none", value |-> <<>>]
    ELSE IF ~Decodable(f.bytes) THEN [exc |-> "UnicodeDecodeError", value |-> <<>>]
    ELSE IF ~WellFormed(f.bytes) THEN [exc |-> "none", value |-> <<>>]
    ELSE [exc |-> "none", value |-> Loads(f.bytes)]

\* TransactionStore.count: len(self.get_pending())
Count(f) ==
    [exc |-> GetPending(f).exc, value |-> Len(GetPending(f).value)]

\* Path.write_text(data), both halves: open(mode "w") truncates, then the
\* data is written and the file closed.
OpenForWrite(f) == [exists |-> TRUE, bytes |-> <<>>]

WriteData(f, data) == [exists |-> TRUE, bytes |-> data]

WriteText(f, data) == WriteData(OpenForWrite(f), data)

\* TransactionStore._ensure_file
EnsureFile(f) == IF f.exists THEN f ELSE WriteText(f, Dumps(<<>>))

\* A variant of Clear that leaves the file as it is.
ClearKeeps(f) == f

\* TransactionStore.clear
Clear(f) == WriteText(f, Dumps(<<>>))

\* A variant of AddIsNoop without the early return on an empty batch.
AddNeverNoop(batch) == FALSE

\* TransactionStore.add: "if not transactions: return"
AddIsNoop(batch) == batch = <<>>

\* A variant of Extend that puts the new batch in front of the stored list.
ExtendInFront(current, batch) == batch \o current

\* TransactionStore.add: current.extend(transactions)
Extend(current, batch) == current \o batch


\* ------------------------------------------------------------- the state
VARIABLES
    file,          \* the backing file pending_tx.json: [exists, bytes]
    nextTx,        \* the next transaction a fill creates
    \* a client of the store (the store's operations called one by one)
    spc,           \* where the client is: "idle", "open" (write_text about to
                   \* open the file), "write" (file opened, data not written)
    sbatch,        \* the argument of the client's last add()
    sdata,         \* the data the current write_text() call writes
    lastOp,        \* the client's last operation
    result,        \* what the last get_pending() / count() returned or raised
    readBroken,    \* the file was missing or no JSON when that call read it
    fileBefore,    \* the file when the last operation was called
    opWrote,       \* the last operation opened the file for writing
    expected,      \* the batches of the completed add() calls, concatenated
    addsDone,      \* the completed non-empty add() calls
    reopened,      \* the store was re-opened after a completed add()
    everCleared,   \* clear() was called
    interrupted,   \* a crash ended an add() or clear() before it returned
    tampered,      \* the file was deleted or overwritten from outside
    \* the executor
    tk,            \* per thread: the locals of its tick() call
    tick_count,    \* Executor.tick_count
    error_count,   \* Executor.error_count
    last_error,    \* Executor.last_error
    api_key,       \* Config.is_valid(): the configuration holds an api_key
    running,       \* Executor.running
    adapter,       \* Executor.adapter: [present, connected]
    lastStart,     \* what start() did, while it is the executor's last call
    lastStop,      \* what stop() did, until the next start() or loop test
    fpc,           \* one turn of tick()'s order loop: "idle", "order", "result", "built"
    order,         \* the order of the turn (Order)
    fillResult,    \* what adapter.execute_order(order) returned (FillResult)
    tx,            \* the transaction the turn appended to new_transactions
    calls,         \* the handler calls execute_order() made in this turn
    qpc,           \* the quotes of one tick: "idle", "fetch", "post"
    symbols,       \* Executor.symbols: the tracked symbols, a list
    eod_prices,    \* Executor.eod_prices: symbol -> reference price
    fetched,       \* the symbols fetch_quote() was called for in this tick
    quotes,        \* symbol -> what fetch_quote() returned in this tick
    prices,        \* the outbound price map of this tick: symbol -> wire entry
    lastData,      \* the "prices" field of the last 2xx response
    qstart,        \* what the tick found when it began, and whether it failed
    \* a broker adapter of its own (adapters/sandbox.py, adapters/ibkr.py)
    akind,         \* which adapter: "sandbox" or "ibkr"
    ib,            \* IBKRAdapter._ib: "none", "connected", "unconnected"
    last_prices,   \* SandboxAdapter._last_prices: the symbols it holds
    alast,         \* the adapter's last call: [op, raised, ret]
    acalls,        \* disconnect() calls in a row, and calls in all
    everConnected, \* connect() was called on this adapter
    \* the control surface (web/app.py)
    managed,       \* _executor is not None
    wreq,          \* the start request holding _executor_lock: [pc, ret,
                   \* ranBefore], pc "none", "call" (executor built) or
                   \* "ret" (start() returned ret)
    wthread,       \* per thread: the run_loop thread a start request spawned
    lastResp,      \* the last response of the control surface
    nreqs,         \* requests answered so far
    \* the strategy logs (Executor.strategy_logs)
    strategy_logs, \* symbol -> the rolling buffer of its log lines
    arrived,       \* symbol -> the lines received for it so far
    clearedAt,     \* symbol -> the lines received when its buffer was cleared
    sent,          \* every remote call so far: payload, outcome, fills
                   \* created, and what its worker thread got back after
                   \* the deadline (late)
    created        \* the transactions created from fills (and those pending
                   \* when the executor was built)

storeVars == <<spc, sbatch, sdata, lastOp, result, readBroken, fileBefore,
               opWrote, expected, addsDone, reopened, everCleared,
               interrupted, tampered>>

lifeVars == <<api_key, running, adapter, lastStart, lastStop>>

fillVars == <<fpc, order, fillResult, tx, calls>>

quoteVars == <<qpc, symbols, eod_prices, fetched, quotes, prices, lastData,
               qstart>>

adapterVars == <<akind, ib, last_prices, alast, acalls, everConnected>>

webVars == <<managed, wreq, wthread, lastResp, nreqs>>

logVars == <<strategy_logs, arrived, clearedAt>>

execVars == <<tk, tick_count, error_count, last_error, sent, created, lifeVars,
              fillVars, quoteVars, adapterVars, webVars, logVars>>

vars == <<file, nextTx, storeVars, execVars>>

Failures == {"timeout", "exception", "non2xx"}

NoFile == [exists |-> FALSE, bytes |-> <<>>]

NoResult == [exc |-> "none", value |-> <<>>]

\* self.adapter = None
NoAdapter == [present |-> FALSE, connected |-> FALSE]

\* no start() call to speak of
NoStart == [outcome |-> "none", ret |-> FALSE, wasRunning |-> FALSE]

\* the empty dict
EmptyMap == <<>>

\* a response without a "prices" field
NoSnapshot ==
    [failed |-> FALSE, symbols |-> <<>>, eod_prices |-> EmptyMap,
     logs |-> EmptyMap, store |-> <<>>]

NoCall == [op |-> "none", raised |-> FALSE, ret |-> FALSE]

NoReq == [pc |-> "none", ret |-> FALSE, ranBefore |-> FALSE]

NoResp == [req |-> "none", code |-> 0, started |-> FALSE, ranBefore |-> FALSE,
           operated |-> FALSE, running |-> FALSE, afterStart |-> FALSE]

NoPrices == [present |-> FALSE, keys |-> <<>>, val |-> EmptyMap]

\* no stop() call to speak of
NoStop == [called |-> FALSE, wasRunning |-> FALSE, hadAdapter |-> FALSE,
           disconnected |-> FALSE]

\* no order, no result, no transaction
NoOrder == [order_id |-> 0, symbol |-> "", action |-> "", volume |-> 0, price |-> 0]

NoFill == [success |-> FALSE, fill_price |-> 0, fill_shares |-> 0, commission |-> 0]

NoTx == [order_id |-> 0, symbol |-> "", action |-> "", volume |-> 0, price |-> 0,
         commission |-> 0]

\* self.last_error = None
NoError == [kind |-> "none", tick |-> 0]

\* error_msg of the tick numbered n that failed the way kind says
ErrorMsg(kind, n) == [kind |-> kind, tick |-> n]

\* tick() has not returned
NoReturn == [kind |-> "none", received |-> 0, filled |-> 0]

\* return {"success": False, "error": error_msg}
FailureResult == [kind |-> "fail", received |-> 0, filled |-> 0]

\* The locals of a tick() call, and what the call has done so far: nreq counts
\* its requests, dispatched lists the orders handed to execute_order(),
\* results holds per order the transaction of its fill (0: no fill), ret is
\* what the call returned, hung says that requests.post() will never return.
IdleTick ==
    [pc |-> "idle", pending |-> <<>>, requested |-> FALSE, outcome |-> "none",
     cleared |-> FALSE, norders |-> 0, idx |-> 0, new_transactions |-> <<>>,
     current |-> <<>>, listAtStart |-> <<>>, entry |-> 0, raised |-> FALSE,
     nreq |-> 0, dispatched |-> <<>>, results |-> <<>>, ret |-> NoReturn,
     errAtStart |-> 0, lastErrAtStart |-> NoError, hung |-> FALSE]

\* the ids 1..n as a list
Iota(n) == [i \in 1..n |-> i]

StoreIdle ==
    /\ spc = "idle"
    /\ sbatch = <<>>
    /\ sdata = <<>>
    /\ lastOp = "init"
    /\ result = NoResult
    /\ readBroken = FALSE
    /\ fileBefore = NoFile
    /\ opWrote = FALSE
    /\ expected = <<>>
    /\ addsDone = 0
    /\ reopened = FALSE
    /\ everCleared = FALSE
    /\ interrupted = FALSE
    /\ tampered = FALSE

ExecIdle ==
    /\ tk = [t \in Threads |-> IdleTick]
    /\ tick_count = 0
    /\ error_count = 0
    /\ last_error = NoError
    /\ sent = <<>>
    /\ running = FALSE
    /\ adapter = NoAdapter
    /\ lastStart = NoStart
    /\ lastStop = NoStop
    /\ fpc = "idle"
    /\ order = NoOrder
    /\ fillResult = NoFill
    /\ tx = NoTx
    /\ calls = <<>>
    /\ qpc = "idle"
    /\ symbols = <<>>
    /\ eod_prices = EmptyMap
    /\ fetched = <<>>
    /\ quotes = EmptyMap
    /\ prices = EmptyMap
    /\ lastData = NoPrices
    /\ qstart = NoSnapshot
    /\ akind = "none"
    /\ ib = "none"
    /\ last_prices = {}
    /\ alast = NoCall
    /\ acalls = [row |-> 0, all |-> 0]
    /\ everConnected = FALSE
    /\ managed = FALSE
    /\ wreq = NoReq
    /\ wthread = [t \in Threads |-> "none"]
    /\ lastResp = NoResp
    /\ nreqs = 0
    /\ strategy_logs = EmptyMap
    /\ arrived = [s \in Symbols |-> 0]
    /\ clearedAt = [s \in Symbols |-> 0]

\* ------------------------------------------ the store, operation by operation
\* The fresh transactions nextTx .. nextTx+k-1 as a batch.
Batch(k) == [i \in 1..k |-> nextTx + i - 1]

\* Every operation starts from the file as it is and has written nothing yet.
StoreCall(op) ==
    /\ spc = "idle"
    /\ lastOp' = op
    /\ fileBefore' = file
    /\ opWrote' = FALSE

\* An operation that is no query leaves no result behind.
NoQuery ==
    /\ result' = NoResult
    /\ readBroken' = FALSE

\* TransactionStore.add(transactions): nothing on an empty batch; otherwise
\* read the list, extend it and hand the text to write_text().
StoreAdd ==
    \E k \in 0..MaxBatch :
        /\ nextTx + k - 1 <= MaxTx
        /\ StoreCall("add")
        /\ sbatch' = Batch(k)
        /\ nextTx' = nextTx + k
        /\ IF AddIsNoop(Batch(k))
           THEN /\ spc' = "idle"
                /\ result' = NoResult
                /\ UNCHANGED sdata
           ELSE IF GetPending(file).exc # "none"
           THEN \* get_pending() raised: add() raises, nothing is written
                /\ spc' = "idle"
                /\ result' = [exc |-> GetPending(file).exc, value |-> <<>>]
                /\ UNCHANGED sdata
           ELSE /\ spc' = "open"
                /\ sdata' = Dumps(Extend(GetPending(file).value, Batch(k)))
                /\ result' = NoResult
        /\ readBroken' = FALSE
        /\ UNCHANGED <<file, expected, addsDone, reopened,
                       everCleared, interrupted, tampered, execVars>>

\* TransactionStore.clear(): write_text("[]")
StoreClear ==
    /\ StoreCall("clear")
    /\ spc' = "open"
    /\ sdata' = Dumps(<<>>)
    /\ everCleared' = TRUE
    /\ NoQuery
    /\ UNCHANGED <<file, nextTx, sbatch, expected, addsDone,
                   reopened, interrupted, tampered, execVars>>

\* write_text(), first half: open(mode "w") truncates the file.
StoreOpen ==
    /\ spc = "open"
    /\ file' = OpenForWrite(file)
    /\ opWrote' = TRUE
    /\ spc' = "write"
    /\ UNCHANGED <<nextTx, sbatch, sdata, lastOp, result, readBroken, fileBefore,
                   expected, addsDone, reopened, everCleared, interrupted,
                   tampered, execVars>>

\* write_text(), second half: the data is written, the file closed and the
\* operation returns.
StoreWrite ==
    /\ spc = "write"
    /\ file' = WriteData(file, sdata)
    /\ spc' = "idle"
    /\ IF lastOp = "add"
       THEN /\ expected' = expected \o sbatch
            /\ addsDone' = addsDone + 1
       ELSE /\ expected' = <<>>
            /\ UNCHANGED addsDone
    /\ UNCHANGED <<nextTx, sbatch, sdata, lastOp, result, readBroken, fileBefore,
                   opWrote, reopened, everCleared, interrupted, tampered,
                   execVars>>

\* TransactionStore.get_pending()
StoreGetPending ==
    /\ StoreCall("get_pending")
    /\ result' = GetPending(file)
    /\ readBroken' = (~file.exists \/ ~Decodable(file.bytes) \/ ~WellFormed(file.bytes))
    /\ UNCHANGED <<file, nextTx, spc, sbatch, sdata, expected, addsDone,
                   reopened, everCleared, interrupted, tampered, execVars>>

\* TransactionStore.count()
StoreCount ==
    /\ StoreCall("count")
    /\ result' = Count(file)
    /\ readBroken' = (~file.exists \/ ~Decodable(file.bytes) \/ ~WellFormed(file.bytes))
    /\ UNCHANGED <<file, nextTx, spc, sbatch, sdata, expected, addsDone,
                   reopened, everCleared, interrupted, tampered, execVars>>

\* TransactionStore(data_path) on the same directory: _ensure_file().
StoreReopen ==
    /\ StoreCall("reopen")
    /\ file' = EnsureFile(file)
    /\ reopened' = (reopened \/ addsDone > 0)
    /\ NoQuery
    /\ UNCHANGED <<nextTx, spc, sbatch, sdata, expected,
                   addsDone, everCleared, interrupted, tampered, execVars>>

\* The process dies inside add() or clear() and a new process opens the store.
\* Before open() the file is untouched; after it, the file holds whatever part
\* of the data reached the disk.
StoreCrash ==
    /\ spc # "idle"
    /\ \E part \in (IF spc = "write" THEN Prefixes(sdata) \ {sdata} ELSE {file.bytes}) :
           file' = EnsureFile([exists |-> file.exists, bytes |-> part])
    /\ spc' = "idle"
    /\ lastOp' = (IF lastOp = "add" THEN "crash_in_add" ELSE "crash_in_clear")
    /\ interrupted' = TRUE
    /\ UNCHANGED <<nextTx, sbatch, sdata, result, readBroken, fileBefore, opWrote,
                   expected, addsDone, reopened, everCleared, tampered, execVars>>

\* Between two operations the file is deleted from outside the program.
ExternalDelete ==
    /\ spc = "idle"
    /\ file.exists
    /\ file' = NoFile
    /\ lastOp' = "external"
    /\ tampered' = TRUE
    /\ NoQuery
    /\ UNCHANGED <<nextTx, spc, sbatch, sdata, fileBefore,
                   opWrote, expected, addsDone, reopened, everCleared,
                   interrupted, execVars>>

\* Between two operations the file is overwritten from outside the program:
\* with text that is no JSON, or with bytes that are no text.
ExternalCorrupt ==
    /\ spc = "idle"
    /\ \E b \in {<<JUNK>>, <<BADBYTE>>} : file' = [exists |-> TRUE, bytes |-> b]
    /\ lastOp' = "external"
    /\ tampered' = TRUE
    /\ NoQuery
    /\ UNCHANGED <<nextTx, spc, sbatch, sdata, fileBefore,
                   opWrote, expected, addsDone, reopened, everCleared,
                   interrupted, execVars>>

\* The store right after TransactionStore(data_path) on an empty directory.
StoreInit ==
    /\ file = EnsureFile(NoFile)
    /\ nextTx = 1
    /\ created = {}
    /\ api_key = TRUE
    /\ StoreIdle
    /\ ExecIdle

StoreNext ==
    \/ StoreAdd
    \/ StoreClear
    \/ StoreOpen
    \/ StoreWrite
    \/ StoreGetPending
    \/ StoreCount
    \/ StoreReopen
    \/ StoreCrash
    \/ ExternalDelete
    \/ ExternalCorrupt

StoreSpec == StoreInit /\ [][StoreNext]_vars

\* ------------------------------------------------- Executor.tick, step by step
SetTick(t, r) == tk' = [tk EXCEPT ![t] = r]

\* The record of thread t's remote call in the history.
SetSent(t, r) == sent' = [sent EXCEPT ![tk[t].entry] = r]

\* A variant of Payload that leaves the oldest pending transaction out.
PayloadDropsFirst(pending) == IF pending = <<>> THEN pending ELSE Tail(pending)

\* json={"prices": prices, "transactions": pending}
Payload(pending) == pending

\* A variant of NextAfterResponse that goes on to clear() whatever the outcome.
NextAlwaysClear(o) == "clear"

\* A variant of NextAfterResponse that processes the body of a failed call.
NextParsesFailure(o) == IF o = "ok" THEN "clear" ELSE "parse"

\* Where tick() goes once the remote call is over: the two except branches and
\* the "if not response.ok" branch return, a 2xx response goes on to clear().
NextAfterResponse(o) == IF o = "ok" THEN "clear" ELSE "idle"

\* A variant of LoopTest of a loop that an exception of tick() has ended.
LoopTestEndsOnException(t) ==
    /\ tk[t].pc = "idle"
    /\ ~tk[t].raised
    /\ running
    /\ tick_count < MaxTicks
    /\ SetTick(t, [tk[t] EXCEPT !.pc = "call"])
    /\ lastStart' = NoStart
    /\ lastStop' = NoStop
    /\ UNCHANGED <<fillVars, quoteVars, adapterVars, webVars, logVars, api_key, running, adapter, file, nextTx, storeVars,
                   tick_count, error_count, last_error, sent, created>>

\* while self.running: the loop's test; the call of tick() is the next step.
\* An exception of the tick before was caught by the loop's except clause.
LoopTest(t) ==
    /\ tk[t].pc = "idle"
    /\ running
    /\ tick_count < MaxTicks
    /\ SetTick(t, [tk[t] EXCEPT !.pc = "call"])
    /\ lastStart' = NoStart
    /\ lastStop' = NoStop
    /\ UNCHANGED <<fillVars, quoteVars, adapterVars, webVars, logVars, api_key, running, adapter, file, nextTx, storeVars,
                   tick_count, error_count, last_error, sent, created>>

\* tick() entered: the counters, then on to get_pending().
TickBegin(t) ==
    /\ tk[t].pc = "call"
    /\ adapter.present
    /\ tick_count < MaxTicks
    /\ tick_count' = tick_count + 1
    /\ SetTick(t, [IdleTick EXCEPT !.pc = "get_pending",
                                   !.listAtStart = GetPending(file).value,
                                   !.errAtStart = error_count,
                                   !.lastErrAtStart = last_error])
    /\ UNCHANGED <<lifeVars, adapterVars, webVars, logVars, fillVars, quoteVars, file, nextTx, storeVars,
                   error_count, last_error, sent, created>>

\* A variant of TickGetPending that empties the store as it reads it.
TickGetPendingDrains(t) ==
    /\ tk[t].pc = "get_pending"
    /\ GetPending(file).exc = "none"
    /\ SetTick(t, [tk[t] EXCEPT !.pc = "post", !.pending = GetPending(file).value])
    /\ file' = Clear(file)
    /\ UNCHANGED <<lifeVars, adapterVars, webVars, logVars, fillVars, quoteVars, nextTx, storeVars, tick_count, error_count, last_error, sent, created>>

\* pending = self.transactions.get_pending(); an exception of get_pending()
\* leaves tick().
TickGetPending(t) ==
    /\ tk[t].pc = "get_pending"
    /\ IF GetPending(file).exc = "none"
       THEN SetTick(t, [tk[t] EXCEPT !.pc = "post",
                                     !.pending = GetPending(file).value])
       ELSE SetTick(t, [tk[t] EXCEPT !.pc = "idle", !.raised = TRUE])
    /\ UNCHANGED <<lifeVars, adapterVars, webVars, logVars, fillVars, quoteVars, file, nextTx, storeVars, tick_count, error_count, last_error, sent, created>>

\* pool.submit(_post): the request leaves with the snapshot read before.
TickPost(t) ==
    /\ tk[t].pc = "post"
    /\ sent' = Append(sent, [payload |-> Payload(tk[t].pending),
                             outcome |-> "none", created |-> <<>>,
                             late |-> "none"])
    /\ SetTick(t, [tk[t] EXCEPT !.pc = "wait", !.requested = TRUE,
                                !.nreq = @ + 1, !.entry = Len(sent) + 1])
    /\ UNCHANGED <<lifeVars, adapterVars, webVars, logVars, fillVars, quoteVars, file, nextTx, storeVars, tick_count, error_count, last_error, created>>

\* A variant of TickFail that also empties the store when giving up.
TickFailClears(t, kind) ==
    /\ tk[t].pc = "wait"
    /\ error_count' = error_count + 1
    /\ last_error' = ErrorMsg(kind, tick_count)
    /\ SetTick(t, [tk[t] EXCEPT !.pc = "idle", !.outcome = kind,
                                !.ret = FailureResult])
    /\ SetSent(t, [sent[tk[t].entry] EXCEPT !.outcome = kind])
    /\ file' = Clear(file)
    /\ UNCHANGED <<lifeVars, adapterVars, webVars, logVars, fillVars, quoteVars, nextTx, storeVars, tick_count, created>>

\* requests.post() in the worker thread blocks for good: the connection
\* stalls and the library's own timeout does not fire.
CallHangs(t) ==
    /\ tk[t].pc = "wait"
    /\ ~tk[t].hung
    /\ SetTick(t, [tk[t] EXCEPT !.hung = TRUE])
    /\ UNCHANGED <<lifeVars, adapterVars, webVars, logVars, fillVars, quoteVars, file, nextTx, storeVars, tick_count, error_count, last_error,
                   sent, created>>

\* The remote call failed: error_count += 1, last_error set, the failure
\* result returned.  future.result(timeout=5) gives up on its own clock; a
\* response or an exception of requests.post() needs the call to end.
TickFail(t, kind) ==
    /\ tk[t].pc = "wait"
    /\ kind # "timeout" => ~tk[t].hung
    /\ error_count' = error_count + 1
    /\ last_error' = ErrorMsg(kind, tick_count)
    /\ SetTick(t, [tk[t] EXCEPT !.pc = NextAfterResponse(kind), !.outcome = kind,
                                !.ret = FailureResult])
    /\ SetSent(t, [sent[tk[t].entry] EXCEPT !.outcome = kind])
    /\ UNCHANGED <<lifeVars, adapterVars, webVars, logVars, fillVars, quoteVars, file, nextTx, storeVars, tick_count, created>>

\* A variant of TickTimeout that returns the failure without counting it.
TickTimeoutUncounted(t) ==
    /\ tk[t].pc = "wait"
    /\ SetTick(t, [tk[t] EXCEPT !.pc = "idle", !.outcome = "timeout",
                                !.ret = FailureResult])
    /\ SetSent(t, [sent[tk[t].entry] EXCEPT !.outcome = "timeout"])
    /\ UNCHANGED <<lifeVars, adapterVars, webVars, logVars, fillVars, quoteVars, file, nextTx, storeVars, tick_count, error_count, last_error,
                   created>>

\* A variant of TickTimeout whose deadline is the one of requests.post()
\* itself: it fires only if the call ends.
TickTimeoutByTransport(t) ==
    /\ ~tk[t].hung
    /\ TickFail(t, "timeout")

\* future.result(timeout=5) raised FuturesTimeout
TickTimeout(t) == TickFail(t, "timeout")

\* A variant of TickException that sends the request again.
TickExceptionRetries(t) ==
    /\ tk[t].pc = "wait"
    /\ tk[t].nreq < 2
    /\ SetTick(t, [tk[t] EXCEPT !.pc = "post"])
    /\ SetSent(t, [sent[tk[t].entry] EXCEPT !.outcome = "exception"])
    /\ UNCHANGED <<lifeVars, adapterVars, webVars, logVars, fillVars, quoteVars, file, nextTx, storeVars, tick_count, error_count, last_error,
                   created>>

\* future.result() raised the exception of requests.post()
TickException(t) == TickFail(t, "exception")

\* the response came and response.ok is false
TickNon2xx(t) == TickFail(t, "non2xx")

\* The response came with a 2xx status.
TickOk(t) ==
    /\ tk[t].pc = "wait"
    /\ ~tk[t].hung
    /\ SetTick(t, [tk[t] EXCEPT !.pc = NextAfterResponse("ok"), !.outcome = "ok"])
    /\ SetSent(t, [sent[tk[t].entry] EXCEPT !.outcome = "ok"])
    /\ UNCHANGED <<lifeVars, adapterVars, webVars, logVars, fillVars, quoteVars, file, nextTx, storeVars, tick_count, error_count, last_error, created>>

\* what requests.post() may still return in the worker thread
LateOutcomes == {"ok", "non2xx"}

\* The calls given up at the deadline whose worker thread has not returned.
Abandoned ==
    {i \in 1..Len(sent) :
        /\ sent[i].outcome = "timeout"
        /\ sent[i].late = "none"
        /\ \A t \in Threads : tk[t].entry = i => ~tk[t].hung}

\* A variant of LateResponse that treats the response as one that came in
\* time and empties the store.
LateResponseClears ==
    /\ \E i \in Abandoned : \E o \in LateOutcomes :
           sent' = [sent EXCEPT ![i].late = o]
    /\ file' = Clear(file)
    /\ UNCHANGED <<nextTx, storeVars, tk, tick_count, error_count, last_error,
                   created, lifeVars, fillVars, quoteVars, adapterVars,
                   webVars, logVars>>

\* _post() returns in the worker thread after future.result(timeout=5) gave
\* up and tick() returned: the response becomes the result of a future that
\* nothing reads; the pool was shut down with wait=False.
LateResponse ==
    /\ \E i \in Abandoned : \E o \in LateOutcomes :
           sent' = [sent EXCEPT ![i].late = o]
    /\ UNCHANGED <<file, nextTx, storeVars, tk, tick_count, error_count,
                   last_error, created, lifeVars, fillVars, quoteVars,
                   adapterVars, webVars, logVars>>

\* A variant of TickClear that goes on to the response without clearing.
TickClearSkips(t) ==
    /\ tk[t].pc = "clear"
    /\ SetTick(t, [tk[t] EXCEPT !.pc = "parse", !.cleared = TRUE])
    /\ UNCHANGED <<lifeVars, adapterVars, webVars, logVars, fillVars, quoteVars, file, nextTx, storeVars, tick_count, error_count,
                   last_error, sent, created>>

\* self.transactions.clear()
TickClear(t) ==
    /\ tk[t].pc = "clear"
    /\ file' = Clear(file)
    /\ SetTick(t, [tk[t] EXCEPT !.pc = "parse", !.cleared = TRUE])
    /\ UNCHANGED <<lifeVars, adapterVars, webVars, logVars, fillVars, quoteVars, nextTx, storeVars, tick_count, error_count, last_error, sent, created>>

\* data = response.json(); orders = data.get("orders", []): a list of n orders.
TickParse(t) ==
    /\ tk[t].pc = "parse"
    /\ \E n \in 0..MaxBatch : SetTick(t, [tk[t] EXCEPT !.pc = "exec", !.norders = n])
    /\ UNCHANGED <<lifeVars, adapterVars, webVars, logVars, fillVars, quoteVars, file, nextTx, storeVars, tick_count, error_count, last_error, sent, created>>

\* response.json() raises on a body that is no JSON: the exception leaves
\* tick().
TickParseRaises(t) ==
    /\ tk[t].pc = "parse"
    /\ SetTick(t, [tk[t] EXCEPT !.pc = "idle", !.raised = TRUE])
    /\ UNCHANGED <<lifeVars, adapterVars, webVars, logVars, fillVars, quoteVars, file, nextTx, storeVars, tick_count, error_count, last_error, sent, created>>

\* One turn of "for order in orders" where execute_order() reports a fill:
\* the transaction is built and appended to new_transactions.
TickOrderFilled(t) ==
    /\ tk[t].pc = "exec"
    /\ tk[t].idx < tk[t].norders
    /\ nextTx <= MaxTx
    /\ SetTick(t, [tk[t] EXCEPT !.idx = @ + 1,
                                !.dispatched = Append(@, tk[t].idx + 1),
                                !.results = Append(@, nextTx),
                                !.new_transactions = Append(@, nextTx)])
    /\ SetSent(t, [sent[tk[t].entry] EXCEPT !.created = Append(@, nextTx)])
    /\ created' = created \cup {nextTx}
    /\ nextTx' = nextTx + 1
    /\ UNCHANGED <<lifeVars, adapterVars, webVars, logVars, fillVars, quoteVars, file, storeVars, tick_count, error_count, last_error>>

\* A variant of TickOrderRejected that builds a transaction all the same.
TickOrderRejectedRecords(t) ==
    /\ tk[t].pc = "exec"
    /\ tk[t].idx < tk[t].norders
    /\ nextTx <= MaxTx
    /\ SetTick(t, [tk[t] EXCEPT !.idx = @ + 1,
                                !.dispatched = Append(@, tk[t].idx + 1),
                                !.results = Append(@, 0),
                                !.new_transactions = Append(@, nextTx)])
    /\ nextTx' = nextTx + 1
    /\ UNCHANGED <<lifeVars, adapterVars, webVars, logVars, fillVars, quoteVars, file, storeVars, tick_count, error_count, last_error, sent,
                   created>>

\* A variant of TickOrderRejected that leaves the loop at the rejection.
TickOrderRejectedStops(t) ==
    /\ tk[t].pc = "exec"
    /\ tk[t].idx < tk[t].norders
    /\ SetTick(t, [tk[t] EXCEPT !.idx = tk[t].norders,
                                !.dispatched = Append(@, tk[t].idx + 1),
                                !.results = Append(@, 0)])
    /\ UNCHANGED <<lifeVars, adapterVars, webVars, logVars, fillVars, quoteVars, file, nextTx, storeVars, tick_count, error_count, last_error,
                   sent, created>>

\* One turn where execute_order() reports success = false: logged, skipped.
TickOrderRejected(t) ==
    /\ tk[t].pc = "exec"
    /\ tk[t].idx < tk[t].norders
    /\ SetTick(t, [tk[t] EXCEPT !.idx = @ + 1,
                                !.dispatched = Append(@, tk[t].idx + 1),
                                !.results = Append(@, 0)])
    /\ UNCHANGED <<lifeVars, adapterVars, webVars, logVars, fillVars, quoteVars, file, nextTx, storeVars, tick_count, error_count, last_error, sent, created>>

\* One turn that raises (the order lacks a field, or the adapter raises): the
\* exception leaves tick() and new_transactions goes with its frame.
TickOrderRaises(t) ==
    /\ tk[t].pc = "exec"
    /\ tk[t].idx < tk[t].norders
    /\ SetTick(t, [tk[t] EXCEPT !.pc = "idle", !.raised = TRUE])
    /\ UNCHANGED <<lifeVars, adapterVars, webVars, logVars, fillVars, quoteVars, file, nextTx, storeVars, tick_count, error_count, last_error, sent, created>>

\* return {"success": True, "tick": ..., "orders_received": len(orders),
\* "orders_filled": len(new_transactions), ...}
Summary(t) ==
    [kind |-> "ok", received |-> tk[t].norders,
     filled |-> Len(tk[t].new_transactions)]

\* self.transactions.add(new_transactions), up to the read: nothing on an
\* empty list, otherwise current = self.get_pending().
TickAdd(t) ==
    /\ tk[t].pc = "exec"
    /\ tk[t].idx = tk[t].norders
    /\ IF AddIsNoop(tk[t].new_transactions)
       THEN SetTick(t, [tk[t] EXCEPT !.pc = "idle", !.ret = Summary(t)])
       ELSE IF GetPending(file).exc # "none"
       THEN SetTick(t, [tk[t] EXCEPT !.pc = "idle", !.raised = TRUE])
       ELSE SetTick(t, [tk[t] EXCEPT !.pc = "add_write",
                                     !.current = GetPending(file).value])
    /\ UNCHANGED <<lifeVars, adapterVars, webVars, logVars, fillVars, quoteVars, file, nextTx, storeVars, tick_count, error_count, last_error, sent, created>>

\* A variant of TickAddWrite that extends the snapshot read at the start of
\* the tick.
TickAddWriteKeepsPending(t) ==
    /\ tk[t].pc = "add_write"
    /\ file' = WriteText(file, Dumps(Extend(tk[t].pending, tk[t].new_transactions)))
    /\ SetTick(t, [tk[t] EXCEPT !.pc = "idle", !.ret = Summary(t)])
    /\ UNCHANGED <<lifeVars, adapterVars, webVars, logVars, fillVars, quoteVars, nextTx, storeVars, tick_count, error_count, last_error, sent,
                   created>>

\* add(), the write: write_text(json.dumps(current)); tick() returns its
\* summary.
TickAddWrite(t) ==
    /\ tk[t].pc = "add_write"
    /\ file' = WriteText(file, Dumps(Extend(tk[t].current, tk[t].new_transactions)))
    /\ SetTick(t, [tk[t] EXCEPT !.pc = "idle", !.ret = Summary(t)])
    /\ UNCHANGED <<lifeVars, adapterVars, webVars, logVars, fillVars, quoteVars, nextTx, storeVars, tick_count, error_count, last_error, sent, created>>

Tick(t) ==
    \/ TickBegin(t)
    \/ TickGetPending(t)
    \/ TickPost(t)
    \/ TickTimeout(t)
    \/ TickException(t)
    \/ TickNon2xx(t)
    \/ TickOk(t)
    \/ TickClear(t)
    \/ TickParse(t)
    \/ TickParseRaises(t)
    \/ TickOrderFilled(t)
    \/ TickOrderRejected(t)
    \/ TickOrderRaises(t)
    \/ TickAdd(t)
    \/ TickAddWrite(t)

\* ------------------------------------------------ Executor.start and stop
StartOutcomes == {"create_raises", "connect_false", "connect_raises", "connect_true"}

\* A variant of RunningAfterStart that sets running before connecting.
RunningSetEarly(o, was) ==
    IF o \in {"connect_false", "connect_raises", "connect_true"} THEN TRUE ELSE was

\* self.running after start(): set to True on the last line but one, reached
\* only when connect() returned true.
RunningAfterStart(o, was) == IF o = "connect_true" THEN TRUE ELSE was

\* self.adapter after start(): assigned once get_adapter() has returned.
AdapterAfterStart(o, old) ==
    IF o \in {"no_key", "create_raises"} THEN old
    ELSE [present |-> TRUE, connected |-> (o = "connect_true")]

\* Executor.start(): False without an api_key; otherwise get_adapter() and
\* connect(), False when either raises or connect() returns false.
Start ==
    /\ \A t \in Threads : tk[t].pc = "idle"
    /\ \E o \in (IF api_key THEN StartOutcomes ELSE {"no_key"}) :
           /\ running' = RunningAfterStart(o, running)
           /\ adapter' = AdapterAfterStart(o, adapter)
           /\ lastStart' = [outcome |-> o, ret |-> (o = "connect_true"),
                            wasRunning |-> running]
    /\ lastStop' = NoStop
    /\ UNCHANGED <<fillVars, quoteVars, adapterVars, webVars, logVars, file, nextTx, storeVars, tk, tick_count, error_count,
                   last_error, sent, created, api_key>>

\* A variant of DisconnectOnStop that disconnects a running executor only.
DisconnectIfRunning(a, was) == a.present /\ was

\* if self.adapter: self.adapter.disconnect()
DisconnectOnStop(a, was) == a.present

\* Executor.stop(): running = False, and disconnect() if there is an adapter.
Stop ==
    /\ running' = FALSE
    /\ adapter' = IF DisconnectOnStop(adapter, running)
                  THEN [adapter EXCEPT !.connected = FALSE]
                  ELSE adapter
    /\ lastStart' = NoStart
    /\ lastStop' = [called |-> TRUE, wasRunning |-> running,
                    hadAdapter |-> adapter.present,
                    disconnected |-> DisconnectOnStop(adapter, running)]
    /\ UNCHANGED <<fillVars, quoteVars, adapterVars, webVars, logVars, file, nextTx, storeVars, tk, tick_count, error_count,
                   last_error, sent, created, api_key>>

\* The executor as Executor(config_path) leaves it, on a data directory that
\* holds the fills an earlier run left pending.
Init ==
    /\ api_key \in BOOLEAN
    /\ \E n \in 0..MaxInit :
           /\ file = EnsureFile([exists |-> TRUE, bytes |-> Dumps(Iota(n))])
           /\ nextTx = n + 1
           /\ created = 1..n
    /\ StoreIdle
    /\ ExecIdle

\* Executor.run: one driver, one tick after the other; the remote service and
\* the network between do what they like.
Next ==
    \/ Start
    \/ Stop
    \/ LoopTest("loop")
    \/ Tick("loop")
    \/ CallHangs("loop")

Spec == Init /\ [][Next]_vars

\* The thread that runs the loop keeps running: a step of tick() that can be
\* taken is taken, among them the expiry of future.result(timeout=5).
LiveSpec == Spec /\ WF_vars(LoopTest("loop")) /\ WF_vars(Tick("loop"))

\* Executor.run with the worker threads of the calls it gave up on: their
\* responses arrive whenever they like.
LateNext ==
    \/ Start
    \/ Stop
    \/ LoopTest("loop")
    \/ Tick("loop")
    \/ CallHangs("loop")
    \/ LateResponse

LateSpec == Init /\ [][LateNext]_vars

\* ---------------------------------- one turn of the order loop, field by field
OrderIds == 1..2

\* the orders the service can return (Order)
Orders ==
    [order_id : OrderIds, symbol : Symbols, action : {"buy", "sell"},
     volume : 1..MaxShares, price : 1..MaxPrice]

\* what execute_buy() and execute_sell() can return (FillResult)
FillResults ==
    [success : {TRUE}, fill_price : 1..MaxPrice, fill_shares : 1..MaxShares,
     commission : 0..MaxCommission]
    \cup {NoFill}

\* A variant of MakeTx that reports the order's volume and reference price.
MakeTxFromOrder(o, r) ==
    [order_id |-> o.order_id, symbol |-> o.symbol, action |-> o.action,
     volume |-> o.volume, price |-> o.price, commission |-> r.commission]

\* tx = {...}: the transaction of a successful fill (its "time" field is the
\* wall clock and is left out)
MakeTx(o, r) ==
    [order_id |-> o.order_id, symbol |-> o.symbol, action |-> o.action,
     volume |-> r.fill_shares, price |-> r.fill_price,
     commission |-> r.commission]

\* for order in orders
FillOrder ==
    /\ fpc \in {"idle", "built", "rejected"}
    /\ \E o \in Orders : order' = o
    /\ fpc' = "order"
    /\ fillResult' = NoFill
    /\ tx' = NoTx
    /\ calls' = <<>>
    /\ UNCHANGED <<file, nextTx, storeVars, tk, tick_count, error_count,
                   last_error, sent, created, lifeVars, adapterVars, webVars, logVars, quoteVars>>

\* A variant of Route that sends every order to execute_buy.
RouteAlwaysBuy(action) == "execute_buy"

\* BaseAdapter.execute_order: if order["action"] == "buy" ... else ...
Route(action) == IF action = "buy" THEN "execute_buy" ELSE "execute_sell"

\* the call execute_order() makes: the handler, its arguments, what it returned
HandlerCall(o, r) ==
    [handler |-> Route(o.action), symbol |-> o.symbol, shares |-> o.volume,
     price |-> o.price, ret |-> r]

\* result = self.adapter.execute_order(order): one call of the handler the
\* action selects, whose result is returned as it is
FillExecute ==
    /\ fpc = "order"
    /\ \E r \in FillResults :
           /\ calls' = Append(calls, HandlerCall(order, r))
           /\ fillResult' = r
    /\ fpc' = "result"
    /\ UNCHANGED <<file, nextTx, storeVars, tk, tick_count, error_count,
                   last_error, sent, created, lifeVars, adapterVars, webVars, logVars, quoteVars, order, tx>>

\* if result["success"]: tx = {...}; new_transactions.append(tx)
FillBuild ==
    /\ fpc = "result"
    /\ fillResult.success
    /\ tx' = MakeTx(order, fillResult)
    /\ fpc' = "built"
    /\ UNCHANGED <<file, nextTx, storeVars, tk, tick_count, error_count,
                   last_error, sent, created, lifeVars, adapterVars, webVars, logVars, quoteVars, order, fillResult,
                   calls>>

\* else: logger.warning(...)
FillRejected ==
    /\ fpc = "result"
    /\ ~fillResult.success
    /\ fpc' = "rejected"
    /\ UNCHANGED <<file, nextTx, storeVars, tk, tick_count, error_count,
                   last_error, sent, created, lifeVars, adapterVars, webVars, logVars, quoteVars, order, fillResult,
                   tx, calls>>

FillNext ==
    \/ FillOrder
    \/ FillExecute
    \/ FillBuild
    \/ FillRejected

FillSpec == StoreInit /\ [][FillNext]_vars

\* --------------------------------------------- the strategy logs of a tick
\* A log line is the number of its arrival for its symbol (the timestamp that
\* tick() puts in front of it is the wall clock and is left out).

Sum(f) == f["AAPL"] + f["MSFT"]

Min(a, b) == IF a < b THEN a ELSE b

\* the lines with the arrival numbers a+1 .. a+n
NewLines(a, n) == [i \in 1..n |-> a + i]

\* the "logs" field a response can carry: symbol -> number of lines, for the
\* symbols it names
LogCounts == UNION {[keys -> 0..MaxLines] : keys \in SUBSET Symbols}

\* the "logs" fields with one line at most
OneLine ==
    {n \in LogCounts : Cardinality(DOMAIN n) <= 1 /\ \A s \in DOMAIN n : n[s] = 1}

\* A variant of Truncate that keeps the first 200 lines.
TruncateKeepsOldest(buf) ==
    IF Len(buf) > LogCap THEN SubSeq(buf, 1, LogCap) ELSE buf

\* if len(buf) > 200: buf = buf[-200:]
Truncate(buf) ==
    IF Len(buf) > LogCap THEN SubSeq(buf, Len(buf) - LogCap + 1, Len(buf))
    ELSE buf

\* for symbol, lines in logs.items(): the buffer is created if missing, every
\* line appended, the buffer cut
LogsAfterResponse(logs, n) ==
    [s \in DOMAIN logs \cup DOMAIN n |->
        IF s \in DOMAIN n
        THEN Truncate((IF s \in DOMAIN logs THEN logs[s] ELSE <<>>)
                          \o NewLines(arrived[s], n[s]))
        ELSE logs[s]]

ArrivedAfterResponse(n) ==
    [s \in Symbols |-> IF s \in DOMAIN n THEN arrived[s] + n[s] ELSE arrived[s]]

\* ------------------------------- the quotes and the tracked symbols of a tick
\* the lists of distinct symbols: the keys of a dict, in its order
SymbolLists ==
    {l \in UNION {[1..n -> Symbols] : n \in 0..Cardinality(Symbols)} :
        \A i, j \in DOMAIN l : l[i] = l[j] => i = j}

\* the "prices" field a response can carry: a dict symbol -> price, or none
PriceMaps ==
    UNION {{[present |-> TRUE, keys |-> l, val |-> f] :
               f \in [Elems(l) -> 1..MaxPrice]} : l \in SymbolLists}
    \cup {NoPrices}

\* what fetch_quote() can return: None, or a Quote, a dict with any of its
\* keys present (two of them stand for the seven: "close" and "bid")
QuoteKeys == {"close", "bid"}

NoneQuote == [none |-> TRUE, keys |-> {}, v |-> 0]

Quotes ==
    [none : {FALSE}, keys : SUBSET QuoteKeys, v : 1..MaxPrice] \cup {NoneQuote}

\* quote.get(key): None (0 here) for a key the Quote does not have
QuoteGet(q, key) == IF key \in q.keys THEN q.v ELSE 0

\* the entry of the outbound price map ("time" is the wall clock, left out)
WireEntry(q) ==
    [ohlcv |-> [c |-> QuoteGet(q, "close")], bid |-> QuoteGet(q, "bid")]

\* if quote: None is false, and so is a dict without keys
Truthy(q) == ~q.none /\ q.keys # {}

\* m[k] = v on a dict
MapPut(m, k, v) == [x \in DOMAIN m \cup {k} |-> IF x = k THEN v ELSE m[x]]

\* A variant of EodAfterResponse that merges the response into the old map.
EodMerged(old, data) ==
    [x \in DOMAIN old \cup DOMAIN data.val |->
        IF x \in DOMAIN data.val THEN data.val[x] ELSE old[x]]

\* self.eod_prices = data.get("prices", {})
EodAfterResponse(old, data) == IF data.present THEN data.val ELSE EmptyMap

\* self.symbols = list(self.eod_prices.keys()): the keys in the dict's order
SymbolsAfterResponse(data) == IF data.present THEN data.keys ELSE <<>>

\* tick() entered with the symbols and prices the tick before left
QuoteBegin ==
    /\ qpc = "idle"
    /\ qpc' = "fetch"
    /\ fetched' = <<>>
    /\ quotes' = EmptyMap
    /\ prices' = EmptyMap
    /\ qstart' = [failed |-> FALSE, symbols |-> symbols,
                  eod_prices |-> eod_prices, logs |-> strategy_logs,
                  store |-> GetPending(file).value]
    /\ UNCHANGED <<file, nextTx, storeVars, tk, tick_count, error_count,
                   last_error, sent, created, lifeVars, adapterVars, webVars, logVars, fillVars, symbols,
                   eod_prices, lastData>>

\* for symbol in self.symbols: quote = fetch_quote(symbol, eod); if quote: ...
QuoteFetch ==
    /\ qpc = "fetch"
    /\ Len(fetched) < Len(symbols)
    /\ LET symbol == symbols[Len(fetched) + 1] IN
       \E q \in Quotes :
           /\ fetched' = Append(fetched, symbol)
           /\ quotes' = MapPut(quotes, symbol, q)
           /\ prices' = IF Truthy(q) THEN MapPut(prices, symbol, WireEntry(q))
                        ELSE prices
    /\ UNCHANGED <<file, nextTx, storeVars, tk, tick_count, error_count,
                   last_error, sent, created, lifeVars, adapterVars, webVars, logVars, fillVars, qpc, symbols,
                   eod_prices, lastData, qstart>>

\* the loop over self.symbols is over: the request leaves with the price map
QuotePost ==
    /\ qpc = "fetch"
    /\ Len(fetched) = Len(symbols)
    /\ qpc' = "post"
    /\ UNCHANGED <<file, nextTx, storeVars, tk, tick_count, error_count,
                   last_error, sent, created, lifeVars, adapterVars, webVars, logVars, fillVars, symbols,
                   eod_prices, fetched, quotes, prices, lastData, qstart>>

\* A variant of SymbolsAfterFailure that stops tracking on a failure.
SymbolsDroppedOnFailure(syms) == <<>>

\* the failure branches return before self.symbols is assigned
SymbolsAfterFailure(syms) == syms

\* the remote call failed: tick() returns before it reaches the response
QuoteFailed ==
    /\ qpc = "post"
    /\ qpc' = "idle"
    /\ symbols' = SymbolsAfterFailure(symbols)
    /\ qstart' = [qstart EXCEPT !.failed = TRUE]
    /\ UNCHANGED <<file, nextTx, storeVars, tk, tick_count, error_count,
                   last_error, sent, created, lifeVars, adapterVars, webVars, logVars, fillVars,
                   eod_prices, fetched, quotes, prices, lastData>>

\* a 2xx response: self.eod_prices = data.get("prices", {});
\* self.symbols = list(self.eod_prices.keys()); then the lines of its "logs"
\* field go to the buffers
QuoteResponse ==
    /\ qpc = "post"
    /\ \E data \in PriceMaps :
           /\ lastData' = data
           /\ eod_prices' = EodAfterResponse(eod_prices, data)
           /\ symbols' = SymbolsAfterResponse(data)
    /\ \E n \in OneLine :
           /\ Sum(ArrivedAfterResponse(n)) <= MaxTickLines
           /\ strategy_logs' = LogsAfterResponse(strategy_logs, n)
           /\ arrived' = ArrivedAfterResponse(n)
    /\ qpc' = "idle"
    /\ qstart' = NoSnapshot
    /\ UNCHANGED <<file, nextTx, storeVars, tk, tick_count, error_count,
                   last_error, sent, created, lifeVars, adapterVars, webVars, clearedAt, fillVars, fetched,
                   quotes, prices>>

QuoteNext ==
    \/ QuoteBegin
    \/ QuoteFetch
    \/ QuotePost
    \/ QuoteFailed
    \/ QuoteResponse

QuoteSpec == StoreInit /\ [][QuoteNext]_vars

\* ------------------------------------- a broker adapter, connect and disconnect
AdapterKinds == {"sandbox", "ibkr"}

\* what IBKRAdapter.connect() can meet: ib_insync missing, IB.connect()
\* raising, and IB.isConnected() answering true or false after it
ConnectOutcomes == {"import_error", "raises", "connected", "not_connected"}

RestOfAdapter ==
    UNCHANGED <<file, nextTx, storeVars, tk, tick_count, error_count, last_error,
                sent, created, lifeVars, fillVars, quoteVars, webVars, logVars>>

\* get_adapter(name, config): the adapter's constructor
AdapterNew(k) ==
    /\ akind = "none"
    /\ akind' = k
    /\ ib' = "none"
    /\ last_prices' = {}
    /\ alast' = [op |-> "new", raised |-> FALSE, ret |-> FALSE]
    /\ UNCHANGED <<acalls, everConnected>>
    /\ RestOfAdapter

IbAfterConnect(k, o, old) ==
    IF k = "sandbox" \/ o = "import_error" THEN old
    ELSE IF o = "connected" THEN "connected" ELSE "unconnected"

ConnectReturns(k, o) == k = "sandbox" \/ o = "connected"

AdapterConnect ==
    /\ akind # "none"
    /\ acalls.all < MaxCalls
    /\ \E o \in ConnectOutcomes :
           /\ ib' = IbAfterConnect(akind, o, ib)
           /\ alast' = [op |-> "connect", raised |-> FALSE,
                        ret |-> ConnectReturns(akind, o)]
    /\ acalls' = [row |-> 0, all |-> acalls.all + 1]
    /\ everConnected' = TRUE
    /\ UNCHANGED <<akind, last_prices>>
    /\ RestOfAdapter

\* the broker or the network ends the connection: IB.isConnected() turns false
AdapterDrop ==
    /\ akind = "ibkr"
    /\ ib = "connected"
    /\ ib' = "unconnected"
    /\ UNCHANGED <<akind, last_prices, alast, acalls, everConnected>>
    /\ RestOfAdapter

\* SandboxAdapter.fetch_quote keeps the price it simulated; without a
\* reference price it returns None and keeps nothing.  IBKRAdapter.fetch_quote
\* changes nothing of the adapter
AdapterFetchQuote ==
    /\ akind # "none"
    /\ acalls.all < MaxCalls
    /\ \E symbol \in Symbols, eod \in 0..1 :
           /\ last_prices' = IF akind = "sandbox" /\ eod # 0
                             THEN last_prices \cup {symbol} ELSE last_prices
           /\ alast' = [op |-> "fetch_quote", raised |-> FALSE,
                        ret |-> IF akind = "sandbox" THEN eod # 0
                                ELSE ib = "connected"]
    /\ acalls' = [row |-> 0, all |-> acalls.all + 1]
    /\ UNCHANGED <<akind, ib, everConnected>>
    /\ RestOfAdapter

\* disconnect() raises: IBKRAdapter tests _ib before it calls into it
DisconnectUnguarded(k, i) == k = "ibkr" /\ i = "none"

DisconnectRaises(k, i) == FALSE

DisconnectState(k, i, lp) ==
    [i |-> IF k = "ibkr" THEN "none" ELSE i,
     lp |-> IF k = "sandbox" THEN {} ELSE lp]

AdapterDisconnect ==
    /\ akind # "none"
    /\ acalls.all < MaxCalls
    /\ LET r == DisconnectRaises(akind, ib)
           st == DisconnectState(akind, ib, last_prices)
       IN  /\ ib' = IF r THEN ib ELSE st.i
           /\ last_prices' = IF r THEN last_prices ELSE st.lp
           /\ alast' = [op |-> "disconnect", raised |-> r, ret |-> FALSE]
    /\ acalls' = [row |-> acalls.row + 1, all |-> acalls.all + 1]
    /\ UNCHANGED <<akind, everConnected>>
    /\ RestOfAdapter

AdapterNext ==
    \/ \E k \in AdapterKinds : AdapterNew(k)
    \/ AdapterConnect
    \/ AdapterDrop
    \/ AdapterFetchQuote
    \/ AdapterDisconnect

AdapterSpec == StoreInit /\ [][AdapterNext]_vars

\* ------------------------------------------- the control surface (web/app.py)
\* The executor variables hold the executor the last start request built.  A
\* start request is followed only while no run_loop thread ticks an executor
\* that _executor no longer names, and while a thread slot is free.

RestOfWeb ==
    UNCHANGED <<file, nextTx, storeVars, sent, created, fillVars, quoteVars,
                adapterVars, logVars>>

Respond(req, code, started, ranBefore, operated, body) ==
    /\ lastResp' = [req |-> req, code |-> code, started |-> started,
                    ranBefore |-> ranBefore, operated |-> operated,
                    running |-> body,
                    afterStart |-> (req = "status" /\ wreq.pc = "none"
                                    /\ lastResp.req = "start"
                                    /\ lastResp.started)]
    /\ nreqs' = nreqs + 1

FreeThreads == {t \in LoopThreads : wthread[t] \in {"none", "exited"}}

Bound == {t \in LoopThreads : wthread[t] = "bound"}

\* start_executor, to the constructor: 400 while the managed executor runs,
\* otherwise _executor = Executor(config_path)
StartExecutorBegin ==
    /\ wreq.pc = "none"
    /\ nreqs < MaxRequests
    /\ IF managed /\ running
       THEN /\ Respond("start", 400, FALSE, running, FALSE, FALSE)
            /\ UNCHANGED <<managed, wreq, wthread, tk, tick_count, error_count,
                           last_error, lifeVars>>
       ELSE /\ FreeThreads # {}
            /\ ~(running /\ Bound # {})
            /\ managed' = TRUE
            /\ wreq' = [pc |-> "call", ret |-> FALSE, ranBefore |-> running]
            /\ wthread' = [t \in Threads |->
                              IF t \in Bound THEN "exited" ELSE wthread[t]]
            /\ api_key' \in BOOLEAN
            /\ running' = FALSE
            /\ adapter' = NoAdapter
            /\ lastStart' = NoStart
            /\ lastStop' = NoStop
            /\ tick_count' = 0
            /\ error_count' = 0
            /\ last_error' = NoError
            /\ UNCHANGED <<tk, lastResp, nreqs>>
    /\ RestOfWeb

\* error = _executor.start()
StartExecutorCall ==
    /\ wreq.pc = "call"
    /\ \E o \in (IF api_key THEN StartOutcomes ELSE {"no_key"}) :
           /\ running' = RunningAfterStart(o, running)
           /\ adapter' = AdapterAfterStart(o, adapter)
           /\ lastStart' = [outcome |-> o, ret |-> (o = "connect_true"),
                            wasRunning |-> running]
           /\ wreq' = [wreq EXCEPT !.pc = "ret", !.ret = (o = "connect_true")]
    /\ lastStop' = NoStop
    /\ UNCHANGED <<managed, wthread, lastResp, nreqs, tk, tick_count,
                   error_count, last_error, api_key>>
    /\ RestOfWeb

\* if error: what start() returned is taken for an error
StartFailed(ret) == ret

\* start_executor, from "if error:" on: the executor is dropped and 500
\* answered, or the run_loop thread is started and 200 answered
StartExecutorEnd ==
    /\ wreq.pc = "ret"
    /\ IF StartFailed(wreq.ret)
       THEN /\ managed' = FALSE
            /\ Respond("start", 500, wreq.ret, wreq.ranBefore, TRUE, FALSE)
            /\ UNCHANGED wthread
       ELSE /\ managed' = managed
            /\ Respond("start", 200, wreq.ret, wreq.ranBefore, TRUE, FALSE)
            /\ wthread' = [wthread EXCEPT
                              ![IF "loop" \in FreeThreads THEN "loop"
                                ELSE IF "loop2" \in FreeThreads THEN "loop2"
                                ELSE "loop3"] = "spawned"]
    /\ wreq' = NoReq
    /\ UNCHANGED <<tk, tick_count, error_count, last_error, lifeVars>>
    /\ RestOfWeb

\* stop_executor: 400 unless the managed executor runs, otherwise stop()
StopExecutor ==
    /\ wreq.pc = "none"
    /\ nreqs < MaxRequests
    /\ IF ~managed \/ ~running
       THEN /\ Respond("stop", 400, FALSE, running, FALSE, FALSE)
            /\ UNCHANGED lifeVars
       ELSE /\ Respond("stop", 200, FALSE, running, TRUE, FALSE)
            /\ running' = FALSE
            /\ adapter' = IF DisconnectOnStop(adapter, running)
                          THEN [adapter EXCEPT !.connected = FALSE]
                          ELSE adapter
            /\ lastStart' = NoStart
            /\ lastStop' = [called |-> TRUE, wasRunning |-> running,
                            hadAdapter |-> adapter.present,
                            disconnected |-> DisconnectOnStop(adapter, running)]
            /\ UNCHANGED api_key
    /\ UNCHANGED <<managed, wreq, wthread, tk, tick_count, error_count,
                   last_error>>
    /\ RestOfWeb

\* manual_tick: 400 unless the managed executor runs, otherwise tick() under
\* the lock
ManualTick ==
    /\ wreq.pc = "none"
    /\ nreqs < MaxRequests
    /\ IF ~managed \/ ~running
       THEN /\ Respond("tick", 400, FALSE, running, FALSE, FALSE)
            /\ UNCHANGED <<wreq, tk>>
       ELSE /\ Respond("tick", 200, FALSE, running, TRUE, FALSE)
            /\ wreq' = [pc |-> "tick", ret |-> FALSE, ranBefore |-> running]
            /\ SetTick("manual", [tk["manual"] EXCEPT !.pc = "call"])
    /\ UNCHANGED <<managed, wthread, tick_count, error_count, last_error,
                   lifeVars>>
    /\ RestOfWeb

\* get_status, which takes no lock: running as the managed executor has it,
\* false without one
GetStatus ==
    /\ nreqs < MaxRequests
    /\ Respond("status", 200, FALSE, running, FALSE, managed /\ running)
    /\ UNCHANGED <<managed, wreq, wthread, tk, tick_count, error_count,
                   last_error, lifeVars>>
    /\ RestOfWeb

\* run_loop: ex = _executor, read when the thread gets to run; if not ex: return
RunLoopBind(t) ==
    /\ wthread[t] = "spawned"
    /\ wthread' = [wthread EXCEPT ![t] = IF managed THEN "bound" ELSE "exited"]
    /\ UNCHANGED <<managed, wreq, lastResp, nreqs, tk, tick_count, error_count,
                   last_error, lifeVars>>
    /\ RestOfWeb

\* run_loop: while ex.running, to the call of ex.tick()
RunLoopTest(t) ==
    /\ wthread[t] = "bound"
    /\ LoopTest(t)

\* run_loop: while ex.running found false
RunLoopExit(t) ==
    /\ wthread[t] = "bound"
    /\ tk[t].pc = "idle"
    /\ ~running
    /\ wthread' = [wthread EXCEPT ![t] = "exited"]
    /\ UNCHANGED <<managed, wreq, lastResp, nreqs, tk, tick_count, error_count,
                   last_error, lifeVars>>
    /\ RestOfWeb

WebNext ==
    \/ StartExecutorBegin
    \/ StartExecutorCall
    \/ StartExecutorEnd
    \/ StopExecutor
    \/ ManualTick
    \/ GetStatus
    \/ \E t \in LoopThreads :
           \/ RunLoopBind(t)
           \/ RunLoopTest(t)
           \/ RunLoopExit(t)
           \/ Tick(t)
           \/ CallHangs(t)

WebSpec == StoreInit /\ [][WebNext]_vars

\* ------------------------------------------------ the strategy logs, alone
RestOfLogs ==
    UNCHANGED <<file, nextTx, storeVars, tk, tick_count, error_count, last_error,
                sent, created, lifeVars, fillVars, quoteVars, adapterVars,
                webVars>>

\* tick(), steps 5 to 7, on a 2xx response with a "logs" field
LogResponse ==
    /\ \E n \in LogCounts :
           /\ Sum(ArrivedAfterResponse(n)) <= MaxArrived
           /\ Min(ArrivedAfterResponse(n)["AAPL"],
                  ArrivedAfterResponse(n)["MSFT"]) <= MaxMinor
           /\ strategy_logs' = LogsAfterResponse(strategy_logs, n)
           /\ arrived' = ArrivedAfterResponse(n)
    /\ UNCHANGED clearedAt
    /\ RestOfLogs

\* clear_worker_logs(symbol): the buffer of a symbol that has one is emptied
ClearWorkerLogs ==
    /\ \E s \in DOMAIN strategy_logs :
           /\ arrived[s] <= MaxClearAt
           /\ arrived[s] > clearedAt[s]
           /\ strategy_logs' = [strategy_logs EXCEPT ![s] = <<>>]
           /\ clearedAt' = [clearedAt EXCEPT ![s] = arrived[s]]
    /\ UNCHANGED arrived
    /\ RestOfLogs

LogNext ==
    \/ LogResponse
    \/ ClearWorkerLogs

LogSpec == StoreInit /\ [][LogNext]_vars

\* --------------------------------------------------- the store's properties
\* C7: after any sequence of completed add() calls and re-openings of the
\* store on the same directory, with no clear(), no interrupted call and no
\* change of the file from outside, get_pending() returns the concatenation of
\* the non-empty added batches in call order.
C7_AddsConcatenate ==
    (spc = "idle" /\ ~everCleared /\ ~interrupted /\ ~tampered)
        => GetPending(file) = [exc |-> "none", value |-> expected]

\* C7's case: two completed non-empty add() calls with a re-opening in between
\* or after them, and the list read back.
C7_Witness ==
    /\ spc = "idle" /\ ~everCleared /\ ~interrupted /\ ~tampered
    /\ addsDone >= 2
    /\ reopened
    /\ Len(expected) >= 2
    /\ lastOp = "get_pending"
    /\ result.value = expected

\* C8: add() replaces the file atomically: after a crash at any point of
\* add() the file holds the complete old content or the complete new content.
C8_AddIsAtomic ==
    lastOp = "crash_in_add"
        => (file.exists /\ file.bytes \in {fileBefore.bytes, sdata})

\* C9: when the file is missing or does not parse as JSON at read time,
\* get_pending() returns the empty list and count() returns 0, and neither
\* raises.
C9_BrokenFileReadsEmpty ==
    (lastOp \in {"get_pending", "count"} /\ readBroken)
        => /\ result.exc = "none"
           /\ lastOp = "get_pending" => result.value = <<>>
           /\ lastOp = "count" => result.value = 0

\* C10: add() with an empty batch writes nothing and leaves the file, and so
\* the pending list, as it was.
C10_EmptyAddIsNoop ==
    (lastOp = "add" /\ sbatch = <<>>)
        => /\ ~opWrote
           /\ spc = "idle"
           /\ file = fileBefore

\* C10's case: add([]) has returned on a store that holds transactions.
C10_Witness ==
    /\ lastOp = "add" /\ sbatch = <<>> /\ spc = "idle"
    /\ Len(GetPending(file).value) > 0

\* ------------------------------------------------ the tick cycle's properties
\* The transactions acknowledged so far: those in the payload of a remote call
\* that returned 2xx.
Acked == UNION {Elems(sent[i].payload) : i \in {j \in 1..Len(sent) : sent[j].outcome = "ok"}}

AllIdle == \A t \in Threads : tk[t].pc = "idle"

\* C1: clear() is executed in a tick only after that tick's own remote call
\* was issued and returned 2xx: never before the request, never in a tick
\* whose call timed out, raised or returned a non-2xx status.
C1_ClearOnlyAfterOk ==
    \A t \in Threads :
        /\ tk[t].cleared => (tk[t].requested /\ tk[t].outcome = "ok")
        /\ (tk[t].pc \in {"get_pending", "post", "wait"} \/ tk[t].outcome \in Failures)
               => (~tk[t].cleared /\ tk[t].pc # "clear")

\* C1's case: a tick with pending transactions has executed clear().
C1_Witness ==
    \E t \in Threads : tk[t].cleared /\ Len(tk[t].pending) > 0 /\ error_count > 0

\* C2: after a tick whose remote call failed, the store's list equals the
\* list before the tick.
C2_FailedTickKeepsStore ==
    \A t \in Threads :
        (tk[t].pc = "idle" /\ tk[t].outcome \in Failures)
            => GetPending(file) = [exc |-> "none", value |-> tk[t].listAtStart]

\* C2's case: a tick on a store with pending transactions has failed.
C2_Witness ==
    \E t \in Threads :
        /\ tk[t].pc = "idle" /\ tk[t].outcome \in Failures
        /\ Len(tk[t].listAtStart) >= 2

\* C3: between ticks, a transaction is in the store if and only if it was
\* created from a successful fill and has not been in the payload of a remote
\* call that returned 2xx.
C3_StoreIffUnacked ==
    AllIdle => Elems(GetPending(file).value) = created \ Acked

\* C4: a transaction in the payload of a tick whose remote call failed is in
\* the payload of the next tick.
C4_ResentAfterFailure ==
    \A i \in 1..(Len(sent) - 1) :
        sent[i].outcome \in Failures
            => Elems(sent[i].payload) \subseteq Elems(sent[i + 1].payload)

\* C4's case: a tick with a non-empty payload failed and the next tick has
\* issued its request.
C4_Witness ==
    \E i \in 1..(Len(sent) - 1) :
        sent[i].outcome \in Failures /\ Len(sent[i].payload) > 0

\* C5: a transaction that was in the payload of a remote call that returned
\* 2xx is in the payload of no later tick.
C5_AckedNeverResent ==
    \A i \in 1..Len(sent) : \A j \in (i + 1)..Len(sent) :
        sent[i].outcome = "ok"
            => Elems(sent[i].payload) \cap Elems(sent[j].payload) = {}

\* C5's case: a non-empty payload was acknowledged and a later tick sent a
\* non-empty payload.
C5_Witness ==
    \E i \in 1..Len(sent) : \E j \in (i + 1)..Len(sent) :
        /\ sent[i].outcome = "ok"
        /\ Len(sent[i].payload) > 0
        /\ Len(sent[j].payload) > 0

\* C6: a transaction created from a fill in tick N is not in the payload of
\* tick N and is in the payload of tick N+1.
C6_FillReportedNextTick ==
    \A i \in 1..Len(sent) : \A x \in Elems(sent[i].created) :
        /\ x \notin Elems(sent[i].payload)
        /\ i < Len(sent) => x \in Elems(sent[i + 1].payload)

\* The transactions of the fills among the per-order results, in batch order.
Fills(results) == SelectSeq(results, LAMBDA x : x # 0)

\* C11: for a batch of N orders of which any subset is reported with
\* success = false, the transactions added to the store are those of the
\* successful orders in batch order, and the tick returns success = true,
\* orders_received = N and orders_filled = the number of successful orders.
C11_PartialBatch ==
    \A t \in Threads :
        (tk[t].pc = "idle" /\ tk[t].outcome = "ok"
            /\ Len(tk[t].results) = tk[t].norders /\ ~tk[t].raised)
            => /\ tk[t].ret.kind = "ok"
               /\ tk[t].ret.received = tk[t].norders
               /\ tk[t].ret.filled = Len(Fills(tk[t].results))
               /\ GetPending(file).value = Fills(tk[t].results)

\* C11's case: a tick has returned whose batch of two had a fill and a
\* rejection.
C11_Witness ==
    \E t \in Threads :
        /\ tk[t].pc = "idle" /\ tk[t].ret.kind = "ok"
        /\ tk[t].norders = 2
        /\ Len(Fills(tk[t].results)) = 1

C14_StoreHoldsNewFills ==
    \A t \in Threads :
        tk[t].ret.kind = "ok"
            => /\ GetPending(file).value = sent[tk[t].entry].created
               /\ Elems(GetPending(file).value) \cap Elems(tk[t].listAtStart) = {}

\* C14's case: a tick that started with pending transactions has returned
\* success after a fill.
C14_Witness ==
    \E t \in Threads :
        /\ tk[t].ret.kind = "ok"
        /\ Len(tk[t].listAtStart) > 0
        /\ Len(sent[tk[t].entry].created) > 0

\* C15: a tick issues exactly one request: never a second one, and it does
\* not return without having issued one.
C15_OneRequestPerTick ==
    \A t \in Threads :
        /\ tk[t].nreq <= 1
        /\ tk[t].ret.kind # "none" => tk[t].nreq = 1
        /\ Len(sent) <= tick_count

\* C15's case: two ticks have returned, the last one failed.
C15_Witness ==
    \E t \in Threads :
        /\ tk[t].ret.kind = "fail" /\ tk[t].nreq = 1
        /\ tick_count = 2 /\ Len(sent) = 2

\* C16: the transactions of a tick's request are the store's list as it was
\* at the start of the tick, each once and in insertion order.
C16_PayloadIsSnapshot ==
    \A t \in Threads :
        tk[t].requested => sent[tk[t].entry].payload = tk[t].listAtStart

\* C16's case: a request left while two transactions were pending.
C16_Witness ==
    \E t \in Threads : tk[t].requested /\ Len(tk[t].listAtStart) = 2

\* C17: in a tick whose remote call timed out, raised or returned non-2xx no
\* order is dispatched to the adapter.
C17_NoDispatchOnFailure ==
    \A t \in Threads :
        tk[t].outcome \in Failures
            => /\ tk[t].dispatched = <<>>
               /\ tk[t].pc \notin {"parse", "exec", "add_write"}

\* C17's case: a tick failed after an earlier tick had dispatched an order.
C17_Witness ==
    \E t \in Threads :
        /\ tk[t].outcome \in Failures /\ tk[t].pc = "idle"
        /\ \E i \in 1..Len(sent) : Len(sent[i].created) > 0

\* C19: a failed tick increments error_count by exactly 1, sets last_error to
\* its own message and returns success = false; a successful tick leaves
\* error_count and last_error as they were.
C19_ErrorAccounting ==
    \A t \in Threads :
        /\ (tk[t].pc = "idle" /\ tk[t].outcome \in Failures)
               => /\ tk[t].ret = FailureResult
                  /\ error_count = tk[t].errAtStart + 1
                  /\ last_error = ErrorMsg(tk[t].outcome, tick_count)
        /\ tk[t].ret.kind = "ok"
               => /\ error_count = tk[t].errAtStart
                  /\ last_error = tk[t].lastErrAtStart

\* C19's case: a second failed tick has returned.
C19_Witness ==
    \E t \in Threads :
        /\ tk[t].pc = "idle" /\ tk[t].outcome \in Failures
        /\ error_count = 2
        /\ tk[t].lastErrAtStart # NoError

\* C18: a tick always returns control: when the remote call never completes,
\* tick() still ends with the timeout failure once the deadline enforced
\* outside the call expires, and the loop is free to go on.
C18_HungCallReturns ==
    \A t \in Threads :
        (tk[t].pc = "wait" /\ tk[t].hung)
            ~> (/\ tk[t].pc = "idle"
                /\ tk[t].outcome = "timeout"
                /\ tk[t].ret = FailureResult)

\* C18's case: the tick of a call that hung has returned its failure.
C18_Witness ==
    \E t \in Threads :
        tk[t].hung /\ tk[t].pc = "idle" /\ tk[t].ret = FailureResult

\* C20: start() on a stopped executor returns false and leaves running false
\* when the api_key is absent, when connect() returns false and when creating
\* or connecting the adapter raises; it returns true and sets running only
\* when connect() returned true.
C20_StartFailsFast ==
    (lastStart.outcome # "none" /\ ~lastStart.wasRunning)
        => /\ lastStart.outcome # "connect_true" => (~lastStart.ret /\ ~running)
           /\ lastStart.outcome = "connect_true" => (lastStart.ret /\ running)
           /\ ~api_key => lastStart.outcome = "no_key"
           /\ running => (adapter.present /\ adapter.connected)

\* C20's case: on an executor that was stopped after running, start() has
\* failed at connect().
C20_Witness ==
    /\ lastStart.outcome \in {"connect_false", "connect_raises"}
    /\ ~lastStart.wasRunning
    /\ tick_count > 0

\* C13: the transaction built from a successful fill takes volume, price and
\* commission from the adapter's result (fill_shares, fill_price, commission)
\* and order_id, symbol and action from the order; the order's reference price
\* and requested volume are not used.
C13_TxFromFill ==
    fpc = "built"
        => /\ tx.volume = fillResult.fill_shares
           /\ tx.price = fillResult.fill_price
           /\ tx.commission = fillResult.commission
           /\ tx.order_id = order.order_id
           /\ tx.symbol = order.symbol
           /\ tx.action = order.action

\* C13's case: a transaction was built from a fill whose price and shares both
\* differ from the order's.
C13_Witness ==
    /\ fpc = "built"
    /\ fillResult.success
    /\ fillResult.fill_price # order.price
    /\ fillResult.fill_shares # order.volume
    /\ fillResult.commission > 0

\* C21: while the executor is running, a tick that raised does not end the
\* loop: the exception is caught at the loop boundary and, unless stop() is
\* called, a further tick is invoked (as long as the run has ticks left).
C21_LoopSurvivesException ==
    \A n \in 1..(MaxTicks - 1) :
        (/\ tk["loop"].pc = "idle"
         /\ tk["loop"].raised
         /\ running
         /\ tick_count = n)
            ~> (tick_count > n \/ ~running)

\* C21's case: after a tick that raised, the loop has passed its test again
\* and is about to call tick().
C21_Witness ==
    /\ tk["loop"].pc = "call"
    /\ tk["loop"].raised
    /\ running

C23_NoTickAfterStop ==
    [][tick_count' # tick_count => running]_vars

\* the transactions in the store
Stored == Elems(GetPending(file).value)

\* the payload of the request sent last
InFlight == IF sent = <<>> THEN {} ELSE Elems(sent[Len(sent)].payload)

\* C25: no transaction stays pending forever.  While the executor is running
\* and has ticks left, a request is sent again and again; every transaction
\* in the store is in its payload; and when the request is answered 2xx,
\* every transaction of the payload is acknowledged and then removed from the
\* store.
C25_EventuallyAcked ==
    /\ [](tk["loop"].pc = "wait" => Stored \subseteq InFlight)
    /\ (tk["loop"].pc = "idle" /\ running /\ tick_count < MaxTicks)
           ~> (tk["loop"].pc = "wait" \/ ~running)
    /\ (tk["loop"].pc = "wait")
           ~> (\/ InFlight \subseteq Acked /\ InFlight \cap Stored = {}
               \/ tk["loop"].outcome \in Failures)

\* C25's case: a transaction that a failed tick left in the store was sent
\* again, acknowledged and removed.
C25_Witness ==
    \E i \in 1..(Len(sent) - 1) :
        /\ sent[i].outcome \in Failures
        /\ sent[i + 1].outcome = "ok"
        /\ Elems(sent[i].payload) # {}
        /\ Elems(sent[i].payload) \subseteq Acked
        /\ Elems(sent[i].payload) \cap Stored = {}
        /\ tk["loop"].pc = "idle"

\* C29: after a successful tick the tracked symbols and the reference prices
\* are exactly the keys and the values of the response's prices map (none for
\* a response without one), and the next tick fetches quotes for exactly
\* those symbols.
C29_SymbolsReplaced ==
    /\ eod_prices = lastData.val
    /\ symbols = lastData.keys
    /\ qpc = "post" => fetched = lastData.keys

\* C29's case: a response with a smaller prices map has replaced a larger one
\* and the next tick has fetched the quotes of the symbols left.
C29_Witness ==
    /\ qpc = "post"
    /\ Len(fetched) = 1
    /\ Len(symbols) = 1
    /\ \E s \in DOMAIN quotes : s \notin DOMAIN prices

\* C30: a tracked symbol is left out of the outbound price map if and only if
\* fetch_quote returned None for it; every other tracked symbol has an entry
\* in the wire shape.
C30_OmittedIffNone ==
    \A s \in DOMAIN quotes :
        /\ s \notin DOMAIN prices <=> quotes[s].none
        /\ s \in DOMAIN prices => prices[s] = WireEntry(quotes[s])

\* C26: on an adapter disconnect() may be called any number of times, also
\* before any connect(): no call raises, and after each call the adapter is in
\* the one disconnected state (no IB client, no simulated prices), so a
\* second call in a row changes nothing
DisconnectedState ==
    /\ akind = "ibkr" => ib = "none"
    /\ akind = "sandbox" => last_prices = {}

C26_DisconnectIdempotent ==
    alast.op = "disconnect" => ~alast.raised /\ DisconnectedState

C26_Witness ==
    /\ akind = "ibkr"
    /\ ~everConnected
    /\ alast.op = "disconnect"
    /\ acalls.row >= 2

\* ----------------------------------------- the control surface's properties
\* the threads that are inside tick()
Ticking == {t \in Threads : tk[t].pc \notin {"idle", "call"}}

\* C24: at most one tick cycle executes at any time on an executor: a manual
\* tick and the ticks of the background loops never overlap
C24_OneTickAtATime == Cardinality(Ticking) <= 1

\* C27: a start request whose Executor.start() succeeded is answered 200 and
\* leaves that executor managed, running and with a live run_loop thread; a
\* status request that follows it reports running = true
C27_StartSucceeds ==
    /\ (wreq.pc = "none" /\ lastResp.req = "start" /\ lastResp.started)
           => /\ lastResp.code = 200
              /\ managed /\ running
              /\ \E t \in LoopThreads : wthread[t] \in {"spawned", "bound"}
    /\ (lastResp.req = "status" /\ lastResp.afterStart) => lastResp.running

\* C28: a request that is invalid in the current lifecycle state is answered
\* with an error and performs no executor operation: start while an executor
\* runs, stop and manual tick while none runs
C28_InvalidRequestRejected ==
    /\ (lastResp.req = "start" /\ lastResp.ranBefore)
           => lastResp.code = 400 /\ ~lastResp.operated
    /\ (lastResp.req \in {"stop", "tick"} /\ ~lastResp.ranBefore)
           => lastResp.code = 400 /\ ~lastResp.operated

\* ------------------------------------------- fills, restarts and the lifecycle
\* What a new process finds in the store: TransactionStore(data_path), then
\* get_pending()
AfterRestart(f) == GetPending(EnsureFile(f)).value

\* C36: every fill the adapter reported as successful survives a restart at
\* any later point of the tick: were the process to die now and the store to
\* be opened again, the list would hold the fill's transaction
C36_FillSurvivesCrash ==
    \A t \in Threads :
        tk[t].pc \notin {"idle", "call"}
            => Elems(tk[t].new_transactions) \subseteq Elems(AfterRestart(file))

\* C37: every successful fill obtained during a tick is in the store when the
\* tick ends, also when it ends by an exception raised at a later order of
\* the batch
C37_FillsStoredAtTickEnd ==
    \A t \in Threads :
        tk[t].pc = "idle"
            => Elems(tk[t].new_transactions) \subseteq Elems(GetPending(file).value)

\* C38: under any sequence of start(), stop() and tick() calls, running = true
\* implies that the adapter is there and its last connect() returned true; a
\* start() call that returns false does not leave running = true
C38_RunningMeansConnected ==
    /\ running => (adapter.present /\ adapter.connected)
    /\ (lastStart.outcome # "none" /\ ~lastStart.ret) => ~running

\* C39: disconnect() is never called on the adapter while a tick is between
\* its start and its return, so no tick works on a disconnected adapter
C39_NoDisconnectDuringTick ==
    (lastStop.called /\ lastStop.disconnected) => Ticking = {}

\* C32: execute_order routes by the order's action: one call of execute_buy
\* and none of execute_sell for "buy", one call of execute_sell and none of
\* execute_buy for "sell", with the order's symbol, volume and price, and what
\* that call returned is what execute_order returns
C32_RoutesByAction ==
    fpc = "result"
        => /\ Len(calls) = 1
           /\ order.action = "buy" => calls[1].handler = "execute_buy"
           /\ order.action = "sell" => calls[1].handler = "execute_sell"
           /\ calls[1].symbol = order.symbol
           /\ calls[1].shares = order.volume
           /\ calls[1].price = order.price
           /\ fillResult = calls[1].ret

\* C32's case: a sell order has been dispatched and its fill returned
C32_Witness ==
    /\ fpc = "result"
    /\ order.action = "sell"
    /\ fillResult.success
    /\ calls # <<>>

\* ----------------------------------------------------- the logs' properties
\* C31: after every tick the buffer of every symbol holds at most 200 entries,
\* and they are the lines received last for that symbol, in the order of
\* their arrival (all the lines received since the buffer was last emptied,
\* up to 200)
C31_RollingBuffer ==
    \A s \in DOMAIN strategy_logs :
        LET buf == strategy_logs[s]
            k == Len(buf)
        IN  /\ k <= LogCap
            /\ k = Min(LogCap, arrived[s] - clearedAt[s])
            /\ buf = NewLines(arrived[s] - k, k)

\* C31's case: more than 200 lines have arrived for a symbol
C31_Witness ==
    \E s \in DOMAIN strategy_logs :
        /\ arrived[s] > LogCap
        /\ Len(strategy_logs[s]) = LogCap

\* C33: a failed tick (timeout, transport exception, non-2xx) leaves the
\* store, the tracked symbols, the reference prices and the log buffers as
\* they were when it began
C33_FailedTickKeepsState ==
    qstart.failed
        => /\ symbols = qstart.symbols
           /\ eod_prices = qstart.eod_prices
           /\ strategy_logs = qstart.logs
           /\ GetPending(file).value = qstart.store

\* C33's case: a tick has failed on an executor that tracks symbols and holds
\* log lines
C33_Witness ==
    /\ qstart.failed
    /\ symbols # <<>>
    /\ \E s \in DOMAIN strategy_logs : strategy_logs[s] # <<>>

\* C34: a remote call abandoned at the deadline has no later effect: when its
\* response arrives, even with 2xx, after the tick returned the timeout
\* failure, the store is not cleared, no order is executed and the tracked
\* symbols and prices are not updated; no order was ever executed for a call
\* that timed out.
C34_AbandonedCallHasNoEffect ==
    /\ [](\A i \in 1..Len(sent) :
             sent[i].outcome = "timeout" => sent[i].created = <<>>)
    /\ [][(\E i \in 1..Len(sent) :
              /\ sent[i].outcome = "timeout"
              /\ sent[i].late = "none"
              /\ Len(sent') >= i
              /\ sent'[i].late # "none")
            => /\ file' = file
               /\ tk' = tk
               /\ created' = created
               /\ nextTx' = nextTx
               /\ symbols' = symbols
               /\ eod_prices' = eod_prices
               /\ strategy_logs' = strategy_logs]_vars

\* C34's case: the 2xx response of a call that carried transactions arrived
\* after the timeout, and the store still holds them.
C34_Witness ==
    \E i \in 1..Len(sent) :
        /\ sent[i].outcome = "timeout"
        /\ sent[i].late = "ok"
        /\ sent[i].payload # <<>>
        /\ Elems(sent[i].payload) \subseteq Stored

\* C35: ticks issued on the same store, a manual one and those of the
\* background loops, lose and resurrect no transaction by interleaving: a
\* tick's clear() removes only transactions of its own acknowledged payload,
\* and the list its add() writes back holds no transaction that has been
\* cleared since add() read it.
C35_NoLossNoResurrection ==
    \A t \in Threads :
        /\ tk[t].pc = "clear" => Stored \subseteq Elems(tk[t].pending)
        /\ tk[t].pc = "add_write" => Elems(tk[t].current) \subseteq Stored

====
